---------------------------- MODULE Spec2Model ----------------------------
(***************************************************************************)
(* Model of fynesse/access.py: the availability probe is_site_up, the      *)
(* Database class (make_cursor, the two remake_* schema operations, the    *)
(* price-paid discovery loop, the postcode archive flow and the counters). *)
(*                                                                         *)
(* One public operation of Database runs at a time (the code is            *)
(* single-threaded); `op` names it and `pc` is the position inside it.     *)
(* Every `with self.make_cursor(..)` block is a unit of work that goes     *)
(* through uow = "connect" -> "body" -> "exit" -> "end".                   *)
(***************************************************************************)
EXTENDS Integers, Sequences, FiniteSets, TLC

(* ------------------------------ bounds -------------------------------- *)
MaxYears    == 2   \* how many years of range(1995, 2022) the model walks
MaxPart     == 2   \* the remote publishes at most this many parts per year
MaxFileRows == 2   \* rows in every well-formed remote CSV part file
MaxOps      == 2   \* public operations called in one behaviour
InitRows    == 1   \* rows a table left by an earlier process may hold
MaxArchive  == 3   \* files in the postcode archive

(* -------------------------- program constants ------------------------- *)
FirstYear == 1995
LastYear  == 2021

Min(a, b) == IF a < b THEN a ELSE b

Years == FirstYear .. Min(LastYear, FirstYear + MaxYears - 1)
Parts == 1 .. (MaxPart + 1)

Tables == {"pp_data", "postcode_data"}

NoFile == <<"none", 0, 0>>

(* A remote answer to urlopen: an HTTP status, or no HTTP answer at all. *)
StatusCodes == {200, 204, 404, 500}
Transport   == 0
Responses   == StatusCodes \cup {Transport}
NoProbe     == "none"
NoLast      == [year |-> 0, part |-> 0, resp |-> -1, up |-> "none"]

VARIABLES
    op, pc, exc, result, nOps,                       \* control
    uow, stmt, commit_after, sessions, pending,      \* unit of work
    bodyRuns, dbCreates, commits,                    \* per unit of work counters
    dbExists, tables, appended, rows0,               \* the database server
    year, part, filename, content,                   \* load_pp_data_into_table
    probed, lastProbe, fetched, loaded, removed,     \* its per-run record
    yearsDone,
    files,                                           \* downloaded files on disk
    zipname, archive, unzipped, walk, loadLog        \* load_postcode_data_into_table

ctlVars == <<op, pc, exc, result, nOps>>
uowVars == <<uow, stmt, commit_after, sessions, pending, bodyRuns, dbCreates, commits>>
dbVars  == <<dbExists, tables, appended, rows0>>
ppVars  == <<year, part, filename, content, probed, lastProbe, fetched, loaded, removed,
            yearsDone>>
poVars  == <<zipname, archive, unzipped, walk, loadLog>>
vars    == <<ctlVars, uowVars, dbVars, ppVars, poVars, files>>

(* ------------------------------ the store ----------------------------- *)
NoTable    == [exists |-> FALSE, rows |-> 0, indexed |-> FALSE]
FreshTable == [exists |-> TRUE,  rows |-> 0, indexed |-> TRUE]

NoStmt == [kind |-> "none", table |-> "pp_data", n |-> 0, wf |-> TRUE]

DropStmt(t)        == [kind |-> "DROP",   table |-> t, n |-> 0, wf |-> TRUE]
CreateStmt(t)      == [kind |-> "CREATE", table |-> t, n |-> 0, wf |-> TRUE]
LoadStmt(t, n, wf) == [kind |-> "LOAD",   table |-> t, n |-> n, wf |-> wf]
CountStmt(t)       == [kind |-> "COUNT",  table |-> t, n |-> 0, wf |-> TRUE]

(* Does cursor.execute(s) raise on the store `tb`?                        *)
(*  DROP TABLE IF EXISTS never does; CREATE TABLE IF NOT EXISTS followed  *)
(*  by CREATE INDEX raises when the index is already there; LOAD DATA     *)
(*  raises on a missing table or a malformed file; SELECT COUNT raises on *)
(*  a missing table.                                                      *)
ExecRaises(s, tb) ==
    CASE s.kind = "DROP"   -> FALSE
      [] s.kind = "CREATE" -> tb[s.table].exists /\ tb[s.table].indexed
      [] s.kind = "LOAD"   -> ~tb[s.table].exists \/ ~s.wf
      [] s.kind = "COUNT"  -> ~tb[s.table].exists
      [] OTHER             -> FALSE

(* The store after a statement that did not raise.  DDL takes effect at   *)
(* once (implicit commit); the rows of LOAD DATA stay pending in the      *)
(* session until it commits.                                              *)
ExecTables(s, tb) ==
    CASE s.kind = "DROP"   -> [tb EXCEPT ![s.table] = NoTable]
      [] s.kind = "CREATE" -> [tb EXCEPT ![s.table] =
                                 IF tb[s.table].exists
                                 THEN [tb[s.table] EXCEPT !.indexed = TRUE]
                                 ELSE FreshTable]
      [] OTHER             -> tb

ExecPending_none(s) == 0

(* The rows a statement leaves pending in its session. *)
ExecPending(s) == IF s.kind = "LOAD" THEN s.n ELSE 0

Commit_replace(s, tb, pend) == [tb EXCEPT ![s.table].rows = pend]

(* conn.commit(): the pending rows of the session are appended. *)
Commit(s, tb, pend) == [tb EXCEPT ![s.table].rows = @ + pend]

(* ------------------------------ the probe ----------------------------- *)
(* urllib.request.urlopen: "ok" with the status for a 2xx answer,         *)
(* HTTPError for any other status, URLError when there is no answer.      *)
urlopen(r) ==
    IF r = Transport THEN [kind |-> "URLError", code |-> 0]
    ELSE IF r >= 200 /\ r < 300 THEN [kind |-> "ok", code |-> r]
    ELSE [kind |-> "HTTPError", code |-> r]

is_site_up_2xx(r) ==
    LET u == urlopen(r) IN
    CASE u.kind = "ok"        -> "True"
      [] u.kind = "HTTPError" -> "False"
      [] OTHER                -> "URLError"

is_site_up_swallow(r) ==
    LET u == urlopen(r) IN
    CASE u.kind = "ok"        -> IF u.code = 200 THEN "True" ELSE "False"
      [] OTHER                -> "False"

(* is_site_up: "True" / "False", or "URLError" when the exception is not  *)
(* an HTTPError and so leaves the function.                               *)
is_site_up_only404(r) ==
    LET u == urlopen(r) IN
    CASE u.kind = "ok"        -> IF u.code = 200 THEN "True" ELSE "False"
      [] u.kind = "HTTPError" -> IF u.code = 404 THEN "False" ELSE "HTTPError"
      [] OTHER                -> "URLError"

is_site_up(r) ==
    LET u == urlopen(r) IN
    CASE u.kind = "ok"        -> IF u.code = 200 THEN "True" ELSE "False"
      [] u.kind = "HTTPError" -> "False"
      [] OTHER                -> "URLError"

(* ------------------------- the postcode archive ----------------------- *)
(* File names are sequences of characters, so that the suffix test of     *)
(* str.endswith is computed and not assumed.                              *)
EndsWith(s, suf) ==
    /\ Len(s) >= Len(suf)
    /\ SubSeq(s, Len(s) - Len(suf) + 1, Len(s)) = suf

Suffix == <<"c", "s", "v">>

(* A file of the archive: the directories above it, its name, and what    *)
(* LOAD DATA would find in it.                                            *)
Entries ==
    { [dir |-> <<>>,              name |-> <<"a", ".", "c", "s", "v">>, n |-> 1, wf |-> TRUE],
      [dir |-> <<"sub">>,         name |-> <<"b", ".", "c", "s", "v">>, n |-> 2, wf |-> TRUE],
      [dir |-> <<"sub", "deep">>, name |-> <<"c", "c", "s", "v">>,      n |-> 1, wf |-> TRUE],
      [dir |-> <<"sub">>,         name |-> <<"e", ".", "c", "s", "v">>, n |-> 1, wf |-> FALSE],
      [dir |-> <<>>,              name |-> <<"c", "s", "v", ".", "t">>, n |-> 1, wf |-> TRUE],
      [dir |-> <<"d.csv">>,       name |-> <<"r", ".", "t", "x", "t">>, n |-> 1, wf |-> TRUE] }

Archives == {a \in SUBSET Entries : Cardinality(a) <= MaxArchive}

IsPrefix(s, t) == Len(s) <= Len(t) /\ SubSeq(t, 1, Len(s)) = s

RECURSIVE CommonLen(_, _)
CommonLen(s, t) ==
    IF s = <<>> \/ t = <<>> \/ Head(s) # Head(t) THEN 0
    ELSE 1 + CommonLen(Tail(s), Tail(t))

WalkTop(tree) ==
    LET top == {e \in tree : e.dir = <<>>} IN
    {w \in [1 .. Cardinality(top) -> top] : \A i, j \in DOMAIN w : i # j => w[i] # w[j]}

(* The orders in which os.walk(unzip_dir) followed by `for file in files` *)
(* can deliver the files of a tree: a directory's files before those of   *)
(* its subdirectories, each subtree in one piece, listdir order free.     *)
WalkOrders(tree) ==
    {w \in [1 .. Cardinality(tree) -> tree] :
        /\ \A i, j \in DOMAIN w : i # j => w[i] # w[j]
        /\ \A i, j \in DOMAIN w :
              i < j => ~(w[j].dir # w[i].dir /\ IsPrefix(w[j].dir, w[i].dir))
        /\ \A i, j, k \in DOMAIN w :
              (i < j /\ j < k) =>
                  CommonLen(w[i].dir, w[k].dir) <= CommonLen(w[i].dir, w[j].dir)}

NoDir == [isdir |-> FALSE, tree |-> {}]

(* -------------------------------- Init -------------------------------- *)
InitTables ==
    {tb \in [Tables -> [exists : BOOLEAN, rows : 0 .. InitRows, indexed : BOOLEAN]] :
        \A t \in Tables : IF tb[t].exists THEN tb[t].indexed
                          ELSE tb[t] = NoTable}

NoContent == [n |-> 0, wf |-> TRUE]

NoProbes == [y \in Years |-> [p \in Parts |-> NoProbe]]
NoParts  == [y \in Years |-> <<>>]

Init ==
    /\ op = "none" /\ pc = "idle" /\ exc = "none" /\ result = -1 /\ nOps = 0
    /\ uow = "none" /\ stmt = NoStmt /\ commit_after = TRUE
    /\ sessions = 0 /\ pending = 0
    /\ bodyRuns = 0 /\ dbCreates = 0 /\ commits = 0
    /\ dbExists \in BOOLEAN
    /\ tables \in InitTables
    /\ (~dbExists => \A t \in Tables : ~tables[t].exists)
    /\ appended = [t \in Tables |-> tables[t].rows]
    /\ rows0 = [t \in Tables |-> tables[t].rows]
    /\ year = FirstYear /\ part = 1 /\ filename = NoFile
    /\ content = NoContent
    /\ probed = NoProbes /\ lastProbe = NoLast
    /\ fetched = NoParts /\ loaded = NoParts /\ removed = NoParts
    /\ yearsDone = <<>>
    /\ files = {}
    /\ zipname = NoFile /\ archive = {} /\ unzipped = NoDir
    /\ walk = <<>> /\ loadLog = <<>>

(* --------------------------- make_cursor ------------------------------ *)
(* What a `with self.make_cursor(c) as cursor: cursor.execute(s)` block   *)
(* starts with.                                                           *)
BeginUow(s, c) ==
    /\ uow' = "connect"
    /\ stmt' = s
    /\ commit_after' = c
    /\ bodyRuns' = 0 /\ dbCreates' = 0 /\ commits' = 0
    /\ UNCHANGED <<sessions, pending>>

(* What the generator does after the bootstrap: `return self.make_cursor()`*)
(* ends the generator without a yield, so entering the `with` raises       *)
(* RuntimeError("generator didn't yield") and the body never runs.         *)
AfterBootstrap == [uow |-> "end", exc |-> "RuntimeError", sessions |-> 0]

(* make_cursor up to its yield: connect to DATABASE_NAME; on               *)
(* ProgrammingError connect without a database, CREATE DATABASE            *)
(* (_make_database), close that connection.                                *)
make_cursor_enter ==
    /\ uow = "connect"
    /\ IF dbExists
       THEN /\ sessions' = sessions + 1
            /\ uow' = "body"
            /\ UNCHANGED <<dbExists, dbCreates, exc>>
       ELSE /\ dbExists' = TRUE
            /\ dbCreates' = dbCreates + 1
            /\ sessions' = sessions + AfterBootstrap.sessions
            /\ uow' = AfterBootstrap.uow
            /\ exc' = AfterBootstrap.exc
    /\ UNCHANGED <<op, pc, result, nOps, stmt, commit_after, pending, bodyRuns, commits,
                   tables, appended, rows0, ppVars, poVars, files>>

(* The body of the with block: cursor.execute(stmt) (and fetchall for the  *)
(* count).  When it raises, the exception is thrown into the generator at  *)
(* its yield: neither conn.commit() nor conn.close() runs and the session  *)
(* stays open.                                                             *)
make_cursor_body ==
    /\ uow = "body"
    /\ bodyRuns' = bodyRuns + 1
    /\ IF ExecRaises(stmt, tables)
       THEN /\ exc' = "DatabaseError"
            /\ uow' = "end"
            /\ UNCHANGED <<tables, pending, result, appended>>
       ELSE /\ tables' = ExecTables(stmt, tables)
            /\ pending' = ExecPending(stmt)
            /\ result' = IF stmt.kind = "COUNT"
                         THEN tables[stmt.table].rows ELSE result
            /\ appended' = CASE stmt.kind = "DROP" -> [appended EXCEPT ![stmt.table] = 0]
                              [] stmt.kind = "LOAD" -> [appended EXCEPT ![stmt.table] = @ + stmt.n]
                              [] OTHER -> appended
            /\ uow' = "exit"
            /\ UNCHANGED exc
    /\ UNCHANGED <<op, pc, nOps, stmt, commit_after, sessions, dbCreates, commits,
                   dbExists, rows0, ppVars, poVars, files>>

(* make_cursor after its yield: `if commit_after: conn.commit()` then      *)
(* conn.close(), which discards what was not committed.                    *)
make_cursor_exit_always ==
    /\ uow = "exit"
    /\ tables' = Commit(stmt, tables, pending)
    /\ commits' = commits + 1
    /\ pending' = 0
    /\ sessions' = sessions - 1
    /\ uow' = "end"
    /\ UNCHANGED <<ctlVars, stmt, commit_after, bodyRuns, dbCreates,
                   dbExists, appended, rows0, ppVars, poVars, files>>

make_cursor_exit ==
    /\ uow = "exit"
    /\ IF commit_after
       THEN /\ tables' = Commit(stmt, tables, pending)
            /\ commits' = commits + 1
       ELSE UNCHANGED <<tables, commits>>
    /\ pending' = 0
    /\ sessions' = sessions - 1
    /\ uow' = "end"
    /\ UNCHANGED <<ctlVars, stmt, commit_after, bodyRuns, dbCreates,
                   dbExists, appended, rows0, ppVars, poVars, files>>

(* ------------------------- calling an operation ----------------------- *)
(* A public method is called when no other is running; the records of the *)
(* previous call are dropped.                                             *)
Call(o) ==
    /\ pc \in {"idle", "done"}
    /\ nOps < MaxOps
    /\ op' = o /\ exc' = "none" /\ result' = -1 /\ nOps' = nOps + 1
    /\ probed' = NoProbes /\ lastProbe' = NoLast
    /\ fetched' = NoParts /\ loaded' = NoParts /\ removed' = NoParts
    /\ yearsDone' = <<>>
    /\ year' = FirstYear /\ part' = 1
    /\ content' = NoContent
    /\ loadLog' = <<>>
    /\ walk' = <<>>
    /\ rows0' = [t \in Tables |-> tables[t].rows]
    /\ UNCHANGED <<dbExists, tables, appended>>

(* a call that opens no unit of work at once *)
NoUow ==
    /\ uow' = "none"
    /\ stmt' = NoStmt
    /\ commit_after' = TRUE
    /\ bodyRuns' = 0 /\ dbCreates' = 0 /\ commits' = 0
    /\ UNCHANGED <<sessions, pending>>

(* return, or the exception leaving the method *)
Return ==
    /\ pc' = "done"
    /\ uow' = "none"
    /\ UNCHANGED <<stmt, commit_after, sessions, pending, bodyRuns, dbCreates, commits>>

(* ------------------------- remake_*_data_table ------------------------ *)
remake_table(o, t) ==
    /\ Call(o)
    /\ pc' = "drop"
    /\ BeginUow(DropStmt(t), TRUE)
    /\ archive' = {}
    /\ UNCHANGED <<filename, files, zipname, unzipped>>

remake_pp_data_table == remake_table("remake_pp_data_table", "pp_data")

remake_postcode_data_table == remake_table("remake_postcode_data_table", "postcode_data")

(* after the DROP block: the CREATE block, with make_cursor(False) *)
remake_create ==
    /\ pc = "drop" /\ uow = "end"
    /\ IF exc # "none"
       THEN Return
       ELSE /\ pc' = "create"
            /\ BeginUow(CreateStmt(stmt.table), FALSE)
    /\ UNCHANGED <<op, exc, result, nOps, dbVars, ppVars, poVars, files>>

remake_return ==
    /\ pc = "create" /\ uow = "end"
    /\ Return
    /\ UNCHANGED <<op, exc, result, nOps, dbVars, ppVars, poVars, files>>

(* ----------------------------- _count_table --------------------------- *)
count_table(o, t) ==
    /\ Call(o)
    /\ pc' = "count"
    /\ BeginUow(CountStmt(t), FALSE)
    /\ archive' = {}
    /\ UNCHANGED <<filename, files, zipname, unzipped>>

count_pp_data == count_table("count_pp_data", "pp_data")

count_postcode_data_pp == count_table("count_postcode_data", "pp_data")

count_postcode_data == count_table("count_postcode_data", "postcode_data")

count_return ==
    /\ pc = "count" /\ uow = "end"
    /\ Return
    /\ UNCHANGED <<op, exc, result, nOps, dbVars, ppVars, poVars, files>>

(* ------------------------ load_pp_data_into_table --------------------- *)
(* wget.download names the local file after the last part of the URL,     *)
(* pp-<year>-part<part>.csv.                                              *)
PartFile(y, p) == <<"pp", y, p>>

(* What the downloaded CSV holds: its rows, and whether LOAD DATA accepts *)
(* them.                                                                  *)
Contents == [n : {MaxFileRows}, wf : BOOLEAN]

(* for year in range(1995, 2022): part = 1 *)
load_pp_data_into_table ==
    /\ Call("load_pp_data_into_table")
    /\ pc' = "probe"
    /\ NoUow
    /\ archive' = {}
    /\ UNCHANGED <<filename, files, zipname, unzipped>>

(* What the loop does once _load_pp_data_part_into_table returned False:  *)
(* the next year from part 1, or the end of the range.                    *)
AfterFalse_nogap(y, p) ==
    IF p \in Parts /\ p + 1 \in Parts
    THEN [pc |-> "probe", year |-> y, part |-> p + 1]
    ELSE IF y + 1 \in Years
    THEN [pc |-> "probe", year |-> y + 1, part |-> 1]
    ELSE [pc |-> "done",  year |-> y,     part |-> 1]

AfterFalse_keeppart(y, p) ==
    IF y + 1 \in Years
    THEN [pc |-> "probe", year |-> y + 1, part |-> p]
    ELSE [pc |-> "done",  year |-> y,     part |-> p]

AfterFalse(y, p) ==
    IF y + 1 \in Years
    THEN [pc |-> "probe", year |-> y + 1, part |-> 1]
    ELSE [pc |-> "done",  year |-> y,     part |-> 1]

(* _load_pp_data_part_into_table, `if not is_site_up(url): return False`. *)
(* The remote answers r; it has no more than MaxPart parts of a year.     *)
pp_probe ==
    /\ pc = "probe"
    /\ \E r \in Responses :
        /\ (part > MaxPart => r # 200)
        /\ probed' = [probed EXCEPT ![year][part] = is_site_up(r)]
        /\ lastProbe' = [year |-> year, part |-> part, resp |-> r, up |-> is_site_up(r)]
        /\ LET up == is_site_up(r) IN
           CASE up = "True" ->
                    /\ pc' = "fetch"
                    /\ UNCHANGED <<exc, year, part, yearsDone>>
             [] up = "False" ->
                    /\ yearsDone' = Append(yearsDone, year)
                    /\ pc' = AfterFalse(year, part).pc
                    /\ year' = AfterFalse(year, part).year
                    /\ part' = AfterFalse(year, part).part
                    /\ UNCHANGED exc
             [] OTHER ->
                    /\ exc' = up
                    /\ pc' = "done"
                    /\ UNCHANGED <<year, part, yearsDone>>
    /\ UNCHANGED <<op, result, nOps, uowVars, dbVars, filename, content,
                   fetched, loaded, removed, files, poVars>>

(* filename = wget.download(url): the file is on disk, or the download    *)
(* raises and hands no file over.                                         *)
pp_fetch ==
    /\ pc = "fetch"
    /\ \/ \E c \in Contents :
            /\ filename' = PartFile(year, part)
            /\ content' = c
            /\ files' = files \cup {PartFile(year, part)}
            /\ fetched' = [fetched EXCEPT ![year] = Append(@, part)]
            /\ pc' = "insert"
            /\ UNCHANGED exc
       \/ /\ exc' = "DownloadError"
          /\ pc' = "done"
          /\ UNCHANGED <<filename, content, files, fetched>>
    /\ UNCHANGED <<op, result, nOps, uowVars, dbVars, year, part,
                   probed, lastProbe, loaded, removed, yearsDone, poVars>>

(* try: self._insert_pp_csv_at_once(filename) *)
insert_pp_csv_at_once ==
    /\ pc = "insert"
    /\ pc' = "load"
    /\ loaded' = [loaded EXCEPT ![year] = Append(@, part)]
    /\ BeginUow(LoadStmt("pp_data", content.n, content.wf), TRUE)
    /\ UNCHANGED <<op, exc, result, nOps, dbVars, year, part, filename, content,
                   probed, lastProbe, fetched, removed, yearsDone, files, poVars>>

RemoveFile_keep(fs, f) == fs

(* os.remove(filename) *)
RemoveFile(fs, f) == fs \ {f}

pp_finally_onsuccess(fs, f, e) == IF e = "none" THEN RemoveFile(fs, f) ELSE fs

(* finally: os.remove(filename), whatever the try block did (e is the     *)
(* exception in flight)                                                   *)
pp_finally(fs, f, e) == RemoveFile(fs, f)

AfterLoad_once(e, p) == [pc |-> "done", part |-> p]

AfterLoad_continue(e, p) == [pc |-> "probe", part |-> p + 1]

(* What follows the finally clause: with no exception in flight `return   *)
(* True` and `part += 1` in the while loop; otherwise the exception       *)
(* leaves load_pp_data_into_table, which has no handler.                  *)
AfterLoad(e, p) ==
    IF e # "none" THEN [pc |-> "done",  part |-> p]
    ELSE               [pc |-> "probe", part |-> p + 1]

(* The finally clause, then `return True` and `part += 1`, or the         *)
(* exception of the load leaving load_pp_data_into_table.                 *)
pp_remove ==
    /\ pc = "load" /\ uow = "end"
    /\ files' = pp_finally(files, filename, exc)
    /\ removed' = [removed EXCEPT ![year] = Append(@, part)]
    /\ filename' = NoFile
    /\ uow' = "none"
    /\ pc' = AfterLoad(exc, part).pc
    /\ part' = AfterLoad(exc, part).part
    /\ UNCHANGED <<op, exc, result, nOps, stmt, commit_after, sessions, pending,
                   bodyRuns, dbCreates, commits, dbVars, year, content,
                   probed, lastProbe, fetched, loaded, yearsDone, poVars>>

(* --------------------- load_postcode_data_into_table ------------------ *)
ZipFile == <<"zip", 0, 0>>

(* filename = wget.download(url) *)
load_postcode_data_into_table ==
    /\ Call("load_postcode_data_into_table")
    /\ \/ \E a \in Archives :
            /\ archive' = a
            /\ zipname' = ZipFile
            /\ files' = files \cup {ZipFile}
            /\ pc' = "unzip"
       \/ /\ exc' = "DownloadError"
          /\ pc' = "done"
          /\ UNCHANGED <<archive, zipname, files>>
    /\ NoUow
    /\ UNCHANGED <<filename, unzipped>>

IsDataFile(e) == EndsWith(e.name, Suffix)

(* ZipFile(filename) raises on a file that is no archive, before the      *)
(* directory exists; extractall can raise with part of the tree written;  *)
(* otherwise the whole archive is under unzip_dir and os.walk starts.     *)
po_unzip ==
    /\ pc = "unzip"
    /\ \/ /\ exc' = "BadZipFile"
          /\ pc' = "cleanup"
          /\ UNCHANGED <<unzipped, walk>>
       \/ \E t \in SUBSET archive :
            /\ t # archive
            /\ unzipped' = [isdir |-> TRUE, tree |-> t]
            /\ exc' = "OSError"
            /\ pc' = "cleanup"
            /\ UNCHANGED walk
       \/ \E w \in WalkOrders(archive) :
            /\ unzipped' = [isdir |-> TRUE, tree |-> archive]
            /\ walk' = w
            /\ pc' = "walk"
            /\ UNCHANGED exc
    /\ UNCHANGED <<op, result, nOps, uowVars, dbVars, ppVars, files,
                   zipname, archive, loadLog>>

(* for file in files: if file.endswith("csv"):                            *)
(*     self._load_postcode_csv_file_into_table(csv_file)                  *)
po_walk ==
    /\ pc = "walk"
    /\ IF walk = <<>>
       THEN /\ pc' = "cleanup"
            /\ UNCHANGED <<walk, loadLog, uowVars>>
       ELSE /\ walk' = Tail(walk)
            /\ IF IsDataFile(Head(walk))
               THEN /\ loadLog' = Append(loadLog, Head(walk))
                    /\ pc' = "csv"
                    /\ BeginUow(LoadStmt("postcode_data", Head(walk).n, Head(walk).wf), TRUE)
               ELSE /\ pc' = "walk"
                    /\ UNCHANGED <<loadLog, uowVars>>
    /\ UNCHANGED <<op, exc, result, nOps, dbVars, ppVars, files,
                   zipname, archive, unzipped>>

(* after _load_postcode_csv_file_into_table: the next file, or the        *)
(* exception on its way out through the finally clause                    *)
po_loaded ==
    /\ pc = "csv" /\ uow = "end"
    /\ uow' = "none"
    /\ pc' = IF exc # "none" THEN "cleanup" ELSE "walk"
    /\ UNCHANGED <<op, exc, result, nOps, stmt, commit_after, sessions, pending,
                   bodyRuns, dbCreates, commits, dbVars, ppVars, poVars, files>>

RemoveTree_skip(d) == d

(* shutil.rmtree(unzip_dir), run only `if os.path.isdir(unzip_dir)` *)
RemoveTree(d) == IF d.isdir THEN NoDir ELSE d

(* finally: os.remove(filename); if os.path.isdir(unzip_dir): rmtree *)
po_cleanup ==
    /\ pc = "cleanup"
    /\ files' = RemoveFile(files, zipname)
    /\ zipname' = NoFile
    /\ unzipped' = RemoveTree(unzipped)
    /\ pc' = "done"
    /\ UNCHANGED <<op, exc, result, nOps, uowVars, dbVars, ppVars, archive, walk, loadLog>>

(* ------------------------------ behaviours ---------------------------- *)
Next ==
    \/ make_cursor_enter
    \/ make_cursor_body
    \/ make_cursor_exit
    \/ remake_pp_data_table
    \/ remake_postcode_data_table
    \/ remake_create
    \/ remake_return
    \/ count_pp_data
    \/ count_postcode_data
    \/ count_return
    \/ load_pp_data_into_table
    \/ pp_probe
    \/ pp_fetch
    \/ insert_pp_csv_at_once
    \/ pp_remove
    \/ load_postcode_data_into_table
    \/ po_unzip
    \/ po_walk
    \/ po_loaded
    \/ po_cleanup

Spec == Init /\ [][Next]_vars

(* The steps of a call of load_pp_data_into_table in progress, as opposed *)
(* to the caller's choice of starting the call.                           *)
PpStep ==
    \/ make_cursor_enter \/ make_cursor_body \/ make_cursor_exit
    \/ pp_probe \/ pp_fetch \/ insert_pp_csv_at_once \/ pp_remove

(* A caller that only runs the price-paid ingestion. *)
PpNext == load_pp_data_into_table \/ PpStep

(* The program is one thread of blocking calls: a call that was started   *)
(* goes on to its next step, every step finishing.  Nothing obliges the   *)
(* caller to start a call.                                                *)
LiveSpec == Init /\ [][PpNext]_vars /\ WF_vars(PpStep)

(* ------------------------------ properties ---------------------------- *)
UpTo(n) == [i \in 1 .. n |-> i]

PpRun == op = "load_pp_data_into_table"
PoRun == op = "load_postcode_data_into_table"

(* probe(y, 1..P) returned True and probe(y, P+1) returned False *)
Discovered(y, P) ==
    /\ \A p \in 1 .. P : probed[y][p] = "True"
    /\ probed[y][P + 1] = "False"

(* C1: once the probe of a year was true for parts 1..P and false for     *)
(* part P+1, exactly the parts 1,..,P of that year were fetched and       *)
(* loaded, in increasing order, and no part from P+2 on is ever probed,   *)
(* fetched or loaded.                                                     *)
C1_DiscoveryStopsAtGap ==
    PpRun =>
      \A y \in Years : \A P \in 0 .. MaxPart :
        Discovered(y, P) =>
          /\ fetched[y] = UpTo(P)
          /\ loaded[y] = UpTo(P)
          /\ removed[y] = UpTo(P)
          /\ \A p \in Parts : p >= P + 2 => probed[y][p] = NoProbe

C1_Witness ==
    /\ PpRun /\ pc = "done" /\ exc = "none"
    /\ Discovered(FirstYear, MaxPart)
    /\ \E y \in Years : Discovered(y, 0)

(* C2: the file of a fetched part is on disk only while its own           *)
(* fetch-then-load cycle is running; when the cycle has ended, by return  *)
(* or by the exception of the load, no downloaded part file is left.      *)
C2_PartFileRemoved ==
    \A y \in Years : \A p \in Parts :
        PartFile(y, p) \in files =>
            /\ PpRun /\ pc \in {"insert", "load"}
            /\ y = year /\ p = part

C2_Witness ==
    /\ PpRun /\ pc = "done" /\ exc = "DatabaseError"
    /\ bodyRuns = 1
    /\ fetched[FirstYear] = <<1>> /\ removed[FirstYear] = <<1>>
    /\ files = {}

(* C3: when load_postcode_data_into_table has ended, on any path, neither *)
(* the downloaded archive nor the scratch directory exists.               *)
C3_ArchiveAndTreeRemoved ==
    (PoRun /\ pc = "done") =>
        /\ ZipFile \notin files
        /\ ~unzipped.isdir /\ unzipped.tree = {}

C3_Witness ==
    /\ PoRun /\ pc = "done" /\ exc = "DatabaseError"
    /\ Len(loadLog) = 2 /\ bodyRuns = 1
    /\ files = {} /\ unzipped = NoDir

(* C4: a unit of work whose first connection found no database created   *)
(* the database once and then ran its body once, without failing.         *)
C4_BootstrapRunsBody ==
    (uow = "end" /\ dbCreates > 0) =>
        /\ dbCreates = 1
        /\ bodyRuns = 1
        /\ exc # "RuntimeError"

RemakeOps == {"remake_pp_data_table", "remake_postcode_data_table"}

TableOf(o) ==
    IF o \in {"remake_pp_data_table", "count_pp_data", "load_pp_data_into_table"}
    THEN "pp_data" ELSE "postcode_data"

(* C5: when a remake_*_data_table call has ended, whatever the table was  *)
(* before (holding rows, empty, or absent), the call succeeded and the    *)
(* table exists, is empty and has its columns and indexes.                *)
C5_RecreateGivesEmptyTable ==
    (op \in RemakeOps /\ pc = "done") =>
        /\ exc = "none"
        /\ tables[TableOf(op)] = FreshTable

(* C6: outside a session that still holds uncommitted rows, an existing   *)
(* table holds the rows it had when created (or first seen) plus N for    *)
(* every bulk load of an N-row file that executed: loads only append; and *)
(* a count that returns gives that number.                                *)
C6_LoadAppendsN ==
    /\ (uow # "exit") =>
          \A t \in Tables : tables[t].exists => tables[t].rows = appended[t]
    /\ (op \in {"count_pp_data", "count_postcode_data"} /\ pc = "done" /\ exc = "none") =>
          result = appended[TableOf(op)]

(* two loads of files of N = MaxFileRows rows into the empty table *)
C6_Witness ==
    /\ PpRun /\ pc = "load" /\ uow = "end" /\ exc = "none"
    /\ year = FirstYear /\ part = 2
    /\ rows0["pp_data"] = 0
    /\ content.n = MaxFileRows
    /\ tables["pp_data"].rows = 2 * MaxFileRows

(* C7: every probe made returned True exactly when the remote answered    *)
(* 200, and returned False, not an exception, for a 404.                  *)
C7_ProbeTrueIff200 ==
    lastProbe # NoLast =>
        /\ (lastProbe.up = "True") <=> (lastProbe.resp = 200)
        /\ (lastProbe.resp = 404) => (lastProbe.up = "False" /\ exc # "URLError")
        /\ probed[lastProbe.year][lastProbe.part] = lastProbe.up

C7_Witness ==
    /\ probed[FirstYear][1] = "True"
    /\ lastProbe = [year |-> FirstYear, part |-> 2, resp |-> 404, up |-> "False"]
    /\ pc = "probe" /\ year = FirstYear + 1

Later(y1, p1, y, p) == y1 > y \/ (y1 = y /\ p1 > p)

(* C8: when the probe of part (y, p) got no HTTP answer, the run has      *)
(* ended with that error, year y is not among the completed years, and    *)
(* nothing was probed, fetched or loaded for (y, p) or after it.          *)
C8_TransportFailureAborts ==
    \A y \in Years : \A p \in Parts :
        (lastProbe.year = y /\ lastProbe.part = p /\ lastProbe.resp = Transport) =>
            /\ PpRun /\ pc = "done" /\ exc = "URLError"
            /\ \A i \in 1 .. Len(yearsDone) : yearsDone[i] # y
            /\ \A y1 \in Years : \A p1 \in Parts :
                  Later(y1, p1, y, p) => probed[y1][p1] = NoProbe
            /\ \A y1 \in Years :
                  /\ \A i \in 1 .. Len(fetched[y1]) : Later(y, p, y1, fetched[y1][i])
                  /\ \A i \in 1 .. Len(loaded[y1])  : Later(y, p, y1, loaded[y1][i])

C8_Witness ==
    /\ PpRun /\ pc = "done" /\ exc = "URLError"
    /\ lastProbe.resp = Transport /\ lastProbe.year = FirstYear /\ lastProbe.part = 2
    /\ loaded[FirstYear] = <<1>>

Range(f) == {f[i] : i \in DOMAIN f}

(* C9: when the postcode flow has ended without an error, the files       *)
(* handed to the bulk loader are exactly the files of the archive, at any *)
(* depth, whose name ends in csv, each one once.                          *)
C9_ExactlyDataFilesLoaded ==
    (PoRun /\ pc = "done" /\ exc = "none") =>
        /\ Range(loadLog) =
              {e \in archive : Len(e.name) >= 3 /\
                  <<e.name[Len(e.name) - 2], e.name[Len(e.name) - 1], e.name[Len(e.name)]>>
                      = <<"c", "s", "v">>}
        /\ Len(loadLog) = Cardinality(Range(loadLog))

C9_Witness ==
    /\ PoRun /\ pc = "done" /\ exc = "none"
    /\ Len(loadLog) = 2
    /\ Cardinality(archive) = 3
    /\ \E e \in Range(loadLog) : Len(e.dir) = 2
    /\ \E e \in Range(loadLog) : Len(e.dir) = 0

CountOps == {"count_pp_data", "count_postcode_data"}

(* C10: no step of a count changes a table or the local files, and the    *)
(* value a count returns is the number of rows of its table.              *)
C10_CountReadOnly ==
    [][ (op' \in CountOps) =>
            /\ tables' = tables
            /\ files' = files /\ unzipped' = unzipped
            /\ (pc' = "done" /\ exc' = "none") => result' = tables'[TableOf(op')].rows
      ]_vars

C10_Witness ==
    /\ op = "count_postcode_data" /\ pc = "done" /\ exc = "none"
    /\ result = 1
    /\ tables["pp_data"].exists /\ tables["pp_data"].rows # 1

(* C11: whenever no unit of work is between its connect and its end, no   *)
(* database session is open: each session is closed when its unit of work *)
(* ends, normally or by an exception.                                     *)
C11_SessionsClosed ==
    (uow \in {"none", "end"}) => sessions = 0

LoadErrors == {"DatabaseError", "RuntimeError"}

(* C12: once the bulk load of part (year, part) has raised, the run only  *)
(* removes the local file and ends with that error: the part was fetched  *)
(* and loaded once, and nothing after it is probed, fetched or loaded.    *)
C12_LoadFailureIsFatal ==
    (PpRun /\ exc \in LoadErrors) =>
        /\ (pc = "load" /\ uow = "end") \/ pc = "done"
        /\ fetched[year] = UpTo(part) /\ loaded[year] = UpTo(part)
        /\ \A y \in Years : \A p \in Parts :
              Later(y, p, year, part) => probed[y][p] = NoProbe
        /\ \A y \in Years : y > year => (fetched[y] = <<>> /\ loaded[y] = <<>>)
        /\ \A i \in 1 .. Len(yearsDone) : yearsDone[i] < year

C12_Witness ==
    /\ PpRun /\ pc = "done" /\ exc = "DatabaseError"
    /\ year = FirstYear /\ part = 2
    /\ loaded[FirstYear] = <<1, 2>> /\ removed[FirstYear] = <<1, 2>>
    /\ tables["pp_data"].rows = rows0["pp_data"] + MaxFileRows

LoadOps == {"load_pp_data_into_table", "load_postcode_data_into_table"}

RECURSIVE SumRows(_)
SumRows(log) == IF log = <<>> THEN 0 ELSE Head(log).n + SumRows(Tail(log))

RECURSIVE CountParts(_)
CountParts(ys) ==
    IF ys = {} THEN 0
    ELSE LET y == CHOOSE z \in ys : TRUE IN Len(loaded[y]) + CountParts(ys \ {y})

(* the rows handed to the bulk loader by the run in progress *)
RowsLoaded ==
    IF PpRun THEN MaxFileRows * CountParts(Years) ELSE SumRows(loadLog)

(* C13 (as stated): when an ingestion run has ended without an error, its *)
(* table holds the rows of that run only: the table was recreated before  *)
(* the first load, so the rows present before the run are gone.           *)
C13_RunRecreatesTable ==
    (op \in LoadOps /\ pc = "done" /\ exc = "none") =>
        tables[TableOf(op)].rows = RowsLoaded

(* C13 (amended): an ingestion run issues no DROP and no CREATE; the rows *)
(* present before the run stay, and when the run has ended without an     *)
(* error its table holds them plus the rows the run loaded.               *)
C13_RunKeepsPriorRows ==
    (op \in LoadOps) =>
        /\ stmt.kind \in {"none", "LOAD"}
        /\ (uow # "exit") => tables[TableOf(op)].rows >= rows0[TableOf(op)]
        /\ (pc = "done" /\ exc = "none") =>
              tables[TableOf(op)].rows = rows0[TableOf(op)] + RowsLoaded

C13_Witness ==
    /\ PpRun /\ pc = "done" /\ exc = "none"
    /\ rows0["pp_data"] = InitRows /\ InitRows > 0
    /\ loaded[FirstYear] = <<1>>
    /\ tables["pp_data"].rows = InitRows + RowsLoaded
    /\ RowsLoaded >= MaxFileRows

PartFiles == {PartFile(y, p) : y \in Years, p \in Parts}

(* C14: the parts of a run are handled one after the other, each one      *)
(* probed, then fetched, then loaded, then deleted: a probe is made only  *)
(* when every part fetched before has been loaded and deleted, and there  *)
(* is never more than one downloaded part file on disk.                   *)
C14_OnePartAtATime ==
    /\ Cardinality(files \cap PartFiles) <= 1
    /\ PpRun =>
        /\ pc = "probe" =>
              /\ files \cap PartFiles = {}
              /\ fetched[year] = UpTo(part - 1)
              /\ loaded[year] = UpTo(part - 1)
              /\ removed[year] = UpTo(part - 1)
        /\ pc = "fetch" =>
              /\ probed[year][part] = "True"
              /\ files \cap PartFiles = {}
              /\ fetched[year] = UpTo(part - 1)
              /\ removed[year] = UpTo(part - 1)
        /\ pc = "insert" =>
              /\ files \cap PartFiles = {PartFile(year, part)}
              /\ fetched[year] = UpTo(part)
              /\ loaded[year] = UpTo(part - 1)
        /\ pc = "load" =>
              /\ files \cap PartFiles = {PartFile(year, part)}
              /\ loaded[year] = UpTo(part)
              /\ removed[year] = UpTo(part - 1)
        /\ \A y \in Years : y # year =>
              (fetched[y] = loaded[y] /\ loaded[y] = removed[y])

(* the probe of the second part of a year, after the first was deleted *)
C14_Witness ==
    /\ PpRun /\ pc = "probe" /\ exc = "none"
    /\ year = FirstYear + 1 /\ part = 2
    /\ removed[FirstYear] = <<1>> /\ removed[year] = <<1>>
    /\ files = {}

(* the years from FirstYear on, in increasing order *)
YearsFrom(n) == [i \in 1 .. n |-> FirstYear + i - 1]

(* C15: while a run has met no error, the years completed so far are the  *)
(* years of the range 1995..2021 before the current one, each once and in *)
(* increasing order; the parts probed for a year start at 1 and are       *)
(* contiguous, whatever the year before had; and when the run has ended,  *)
(* every year of the range was completed, also after a year of no parts.  *)
C15_EveryYearOnceInOrder ==
    /\ FirstYear = 1995 /\ LastYear = 2021 /\ Years \subseteq FirstYear .. LastYear
    /\ (PpRun /\ exc = "none") =>
        /\ pc # "done" => yearsDone = YearsFrom(year - FirstYear)
        /\ pc = "done" => yearsDone = YearsFrom(Cardinality(Years))
        /\ \A y \in Years : \A p \in Parts :
              probed[y][p] # NoProbe =>
                  \A q \in 1 .. (p - 1) : probed[y][q] = "True"
        /\ \A i \in 1 .. Len(yearsDone) : probed[yearsDone[i]][1] # NoProbe

(* a year of no parts, then a year of MaxPart parts, then the end *)
C15_Witness ==
    /\ PpRun /\ pc = "done" /\ exc = "none"
    /\ Discovered(FirstYear, 0)
    /\ Discovered(FirstYear + 1, MaxPart)
    /\ loaded[FirstYear + 1] = UpTo(MaxPart)
    /\ Len(yearsDone) = Cardinality(Years)

(* C16: a unit of work that has ended committed once when it was opened   *)
(* with commit_after true and its body did not raise, and did not commit  *)
(* otherwise: not with commit_after false (CREATE, COUNT), and not when    *)
(* the body raised; before its body has completed nothing is committed.   *)
C16_CommitIffAskedAndNoRaise ==
    /\ uow = "end" =>
          commits = (IF commit_after /\ exc = "none" THEN 1 ELSE 0)
    /\ uow \in {"connect", "body", "exit"} => commits = 0
    /\ (uow = "end" /\ stmt.kind \in {"CREATE", "COUNT"}) => ~commit_after
    /\ (uow = "end" /\ stmt.kind \in {"DROP", "LOAD"}) => commit_after

(* a bulk load that raised: commit_after is true, nothing was committed *)
C16_Witness ==
    /\ PoRun /\ uow = "end" /\ exc = "DatabaseError"
    /\ stmt.kind = "LOAD" /\ commit_after /\ bodyRuns = 1
    /\ commits = 0
    /\ Len(loadLog) = 2
    /\ tables["postcode_data"].rows > rows0["postcode_data"]

(* HTTP error statuses other than not-found *)
OtherErrors == {c \in StatusCodes : c >= 400 /\ c # 404}

(* C17 (as stated): a probe answered by an HTTP error status other than   *)
(* not-found did not return False, and its year is not counted as         *)
(* completed.                                                             *)
C17_OnlyNotFoundEndsYear ==
    (lastProbe # NoLast /\ lastProbe.resp \in OtherErrors) =>
        /\ lastProbe.up # "False"
        /\ \A i \in 1 .. Len(yearsDone) : yearsDone[i] # lastProbe.year

(* C17 (amended): a probe answered by any HTTP status other than 200, a   *)
(* 500 as much as a 404, returned False, raised nothing, and ended its    *)
(* year as completed: the run is at part 1 of the next year or, after the *)
(* last year, has returned. Only a probe with no HTTP answer raises.      *)
C17_AnyHttpErrorEndsYear ==
    lastProbe # NoLast =>
        /\ (lastProbe.resp \in StatusCodes \ {200}) =>
              /\ lastProbe.up = "False"
              /\ PpRun /\ exc = "none"
              /\ yearsDone # <<>> /\ yearsDone[Len(yearsDone)] = lastProbe.year
              /\ \A p \in Parts :
                    p > lastProbe.part => probed[lastProbe.year][p] = NoProbe
              /\ \/ pc = "probe" /\ year = lastProbe.year + 1 /\ part = 1
                 \/ pc = "done" /\ lastProbe.year + 1 \notin Years
        /\ (lastProbe.up = "URLError") <=> (lastProbe.resp = Transport)

(* part 2 of the first year answered 500: the run went on to the next year *)
C17_Witness ==
    /\ probed[FirstYear][1] = "True"
    /\ lastProbe = [year |-> FirstYear, part |-> 2, resp |-> 500, up |-> "False"]
    /\ pc = "probe" /\ year = FirstYear + 1 /\ part = 1
    /\ yearsDone = <<FirstYear>> /\ exc = "none"

(* C18: a run of load_pp_data_into_table that was started ends, by a      *)
(* return or by an error, given that every step finishes and a year has   *)
(* at most MaxPart contiguous parts; and in a run the loop of a year is   *)
(* left only by a probe that returned False or by a step that raised.     *)
C18_IngestionTerminates ==
    /\ (PpRun /\ pc # "done") ~> (PpRun /\ pc = "done")
    /\ [][ (PpRun /\ nOps' = nOps /\ (year' # year \/ pc' = "done")) =>
              \/ exc' # "none"
              \/ lastProbe' = [year |-> year, part |-> part,
                               resp |-> lastProbe'.resp, up |-> "False"]
       ]_vars

(* the longest run: every year has MaxPart parts, and the run returned *)
C18_Witness ==
    /\ PpRun /\ pc = "done" /\ exc = "none"
    /\ \A y \in Years : Discovered(y, MaxPart) /\ removed[y] = UpTo(MaxPart)

=============================================================================
